---- MODULE Spec2Model ----
\* A model of the Nassr report backend (src/main.py): the activation-code
\* lifecycle (generate_code, activate, verify) and the report text pipeline
\* (parse_ai_response, enrich_and_enforce).
\*
\* Strings are sequences of symbols.  A symbol is a single character (" ",
\* ".", "1", ...) or a whole Arabic word written in Latin transliteration;
\* characters outside ASCII are named by their code point ("U+060C").
EXTENDS Integers, Sequences, FiniteSets, TLC

VARIABLES
  VALID_CODES,   \* the in-memory store: code hash -> expires_at        (main.py:70)
  now,           \* datetime.utcnow(), in clock ticks
  advances,      \* number of clock advances so far
  pc,            \* per request thread: position inside activate
  local,         \* per request thread: activate's local variables
  result,        \* per request thread: the response of its last activate call
  overlap,       \* per request thread: the threads that were inside activate during its last call
  response,      \* the response of the generate_code or verify call just served, if any
  generated,     \* the activation codes handed out by generate_code
  redeemCount,   \* code hash -> number of tokens issued for it since it was generated
  calls,         \* number of activate calls started so far
  report_type,   \* the report type hint of the current normalisation
  raw,           \* the raw AI text given to parse_ai_response
  parsed,        \* parse_ai_response's dict of the 7 fields
  ppc,           \* position inside parse_ai_response
  idx,           \* index of the field parse_ai_response is working on
  text,          \* enrich_and_enforce's working text
  epc,           \* position inside enrich_and_enforce
  arg,           \* the text enrich_and_enforce was called with
  rng,           \* state of the seeded random source used by the report pipeline
  request,       \* the AI-backed request being served and what has happened in it
  rpc,           \* position inside the handler of that request
  stale,         \* codes handed out and tokens issued before the last process restart
  restarts       \* number of process restarts so far

credVars   == <<VALID_CODES, now, advances, pc, local, result, overlap, response,
                generated, redeemCount, calls>>
reportVars == <<report_type, raw, parsed, ppc, idx, text, epc, arg, rng>>
serverVars == <<request, rpc, stale, restarts>>
vars       == <<credVars, reportVars, serverVars>>

-----------------------------------------------------------------------------
\* Characters and Python's str operations

AR_COMMA == "U+060C"   \* the Arabic comma
AR_QMARK == "U+061F"   \* the Arabic question mark
NL       == "\n"

LatinDigits  == <<"1", "2", "3", "4", "5", "6", "7">>
ArabicDigits == <<"U+0661", "U+0662", "U+0663", "U+0664", "U+0665", "U+0666", "U+0667">>

IsSpace(c) == c \in {" ", NL}

Min2(a, b) == IF a < b THEN a ELSE b

\* s[from:] (1-based, inclusive)
Drop(s, n) == SubSeq(s, n + 1, Len(s))

\* str.strip()
Strip(s) ==
  LET keep == {i \in 1..Len(s) : ~IsSpace(s[i])}
  IN  IF keep = {} THEN <<>>
      ELSE LET first == CHOOSE i \in keep : \A j \in keep : i <= j
               last  == CHOOSE i \in keep : \A j \in keep : j <= i
           IN  SubSeq(s, first, last)

\* s.startswith(p)
StartsWith(s, p) == Len(s) >= Len(p) /\ SubSeq(s, 1, Len(p)) = p

\* the pieces of s between the positions in cuts, which are in increasing order
RECURSIVE Pieces(_, _, _)
Pieces(s, from, cuts) ==
  IF cuts = <<>> THEN <<SubSeq(s, from, Len(s))>>
  ELSE <<SubSeq(s, from, Head(cuts) - 1)>> \o Pieces(s, Head(cuts) + 1, Tail(cuts))

\* the members of a set of integers in increasing order
RECURSIVE Sorted(_)
Sorted(S) ==
  IF S = {} THEN <<>>
  ELSE LET m == CHOOSE x \in S : \A y \in S : x <= y
       IN  <<m>> \o Sorted(S \ {m})

\* str.split(sep) for a one-character separator: empty pieces are kept
SplitOn(s, sep) == Pieces(s, 1, Sorted({i \in 1..Len(s) : s[i] = sep}))

\* str.split(): the maximal runs of non-whitespace
Words(s) ==
  LET starts == {i \in 1..Len(s) : ~IsSpace(s[i]) /\ (i = 1 \/ IsSpace(s[i - 1]))}
      EndOf(i) == CHOOSE j \in i..Len(s) :
                     /\ \A k \in i..j : ~IsSpace(s[k])
                     /\ (j = Len(s) \/ IsSpace(s[j + 1]))
      order == Sorted(starts)
  IN  [k \in 1..Len(order) |-> SubSeq(s, order[k], EndOf(order[k]))]

\* len(s.split())
WordCount(s) ==
  Cardinality({i \in 1..Len(s) : ~IsSpace(s[i]) /\ (i = 1 \/ IsSpace(s[i - 1]))})

\* sep.join(parts)
RECURSIVE Join(_, _)
Join(parts, sep) ==
  IF parts = <<>> THEN <<>>
  ELSE IF Len(parts) = 1 THEN parts[1]
  ELSE parts[1] \o sep \o Join(Tail(parts), sep)

\* str.replace("  ", " "): one pass, left to right, over non-overlapping pairs
RECURSIVE ReplaceDoubleSpace(_)
ReplaceDoubleSpace(s) ==
  IF Len(s) < 2 THEN s
  ELSE IF s[1] = " " /\ s[2] = " " THEN <<" ">> \o ReplaceDoubleSpace(Drop(s, 2))
  ELSE <<s[1]>> \o ReplaceDoubleSpace(Tail(s))

-----------------------------------------------------------------------------
\* Text tables of main.py, transliterated

\* The generic enrichment phrases.
LINGUISTIC_ENRICHMENT ==
  << <<"bmA", " ", "yEzz", " ", "mn", " ", "fAElyp", " ", "AlEmlyp", " ", "AltElymyp", " ", "wyrtqy", " ", "bmstwY", " ", "AlmmArsAt", " ", "AlSfyp">>,
     <<"bmA", " ", "ynsjm", " ", "mE", " ", "twjhAt", " ", "AltElym", " ", "AlHdyvp", " ", "wnwAtj", " ", "AltElm", " ", "Almsthdfp">>,
     <<"bOslwb", " ", "mhny", " ", "yEks", " ", "AltxTyT", " ", "Aljyd", " ", "wAltnfyV", " ", "Altrbwy", " ", "AlfEAl">>,
     <<"wfq", " ", "mEAyyr", " ", "trbwyp", " ", "tshm", " ", "fy", " ", "tHsyn", " ", "jwdp", " ", "AltElym", " ", "dAxl", " ", "AlSf">>,
     <<"wbmA", " ", "ydEm", " ", "bnAc", " ", "byQp", " ", "tElm", " ", "mHfzp", " ", "wmCjEp", " ", "ElY", " ", "AlmCArkp">> >>

\* The high-value phrases appended to very short texts.
enhancements ==
  << <<"bmA", " ", "yEzz", " ", "mn", " ", "jwdp", " ", "AlmmArsp", " ", "AltElymyp", " ", "wynsjm", " ", "mE", " ", "OhdAf", " ", "Almnhj">>,
     <<"wVlk", " ", "ltHqyq", " ", "nwAtj", " ", "AltElm", " ", "Almsthdfp", " ", "wrfE", " ", "mstwY", " ", "AltHSyl", " ", "AldrAsy">>,
     <<"bmA", " ", "ydEm", " ", "AltTwyr", " ", "Almhny", " ", "AlmstdAm", " ", "wyEzz", " ", "fAElyp", " ", "AlEmlyp", " ", "AltElymyp">>,
     <<"wyshm", " ", "fy", " ", "bnAc", " ", "byQp", " ", "tElmyp", " ", "mHfzp", " ", "tdEm", " ", "AlIbdAE", " ", "wAltmyz">>,
     <<"wVlk", " ", "tmACyAF", " ", "mE", " ", "rWyp", " ", "AltElym", " ", "AlHdyvp", " ", "wAstrAtyjyAth", " ", "AltTwyryp">>,
     <<"bmA", " ", "yrtqy", " ", "bAlmmArsAt", " ", "AlSfyp", " ", "wyEzz", " ", "AlCrAkp", " ", "AlmjtmEyp", " ", "AlfAElp">> >>

\* The closing clause appended by the clause-aware trim.
closing_clause ==
  <<"U+060C", " ", "mmA", " ", "yshm", " ", "fy", " ", "tHqyq", " ", "AlOhdAf", " ", "Altrbwyp", " ", "AlmnCwdp", ".">>

\* Report-type keyword -> context words, in dictionary order.
context_keywords ==
  << [keyword |-> <<"tqryr", " ", "ElAjy">>,
      phrases |-> << <<"AlElAj">>, <<"AldEm">>, <<"tHsyn">>, <<"tqdm">> >>],
     [keyword |-> <<"tqryr", " ", "slwky">>,
      phrases |-> << <<"Alslwk">>, <<"tHfyz">>, <<"tEzyz">>, <<"mkAfOp">> >>],
     [keyword |-> <<"tqryr", " ", "tqyymy">>,
      phrases |-> << <<"tqyym">>, <<"qyAs">>, <<"ntAQj">>, <<"mWCrAt">> >>],
     [keyword |-> <<"tqryr", " ", "nCAT">>,
      phrases |-> << <<"nCAT">>, <<"mCArkp">>, <<"tfAEl">>, <<"tTbyq">> >>] >>

\* The fallback corpus, three texts per field.
DEFAULT_REPORT_TEXTS ==
  [ goal |->
      << <<"tnmyp", " ", "AlmhArAt", " ", "AlOsAsyp", " ", "fy", " ", "AlmAdp", " ", "wtHqyq", " ", "AlOhdAf", " ", "AltElymyp", " ", "AlmHddp">>,
         <<"tHsyn", " ", "mstwY", " ", "AltHSyl", " ", "AldrAsy", " ", "llTlAb", " ", "wtEzyz", " ", "dAfEythm", " ", "lltElm">>,
         <<"tTbyq", " ", "AstrAtyjyAt", " ", "tElymyp", " ", "mtnwEp", " ", "ltHsyn", " ", "jwdp", " ", "AlEmlyp", " ", "AltElymyp">> >>,
    summary |->
      << <<"tqryr", " ", "ywvq", " ", "AlOnCTp", " ", "AltElymyp", " ", "AlmnfVp", " ", "wntAQjhA", " ", "wfq", " ", "AlmEAyyr", " ", "Altrbwyp">>,
         <<"wvyqp", " ", "trbwyp", " ", "tsjl", " ", "Aljhwd", " ", "AlmbVwlp", " ", "ltHqyq", " ", "OhdAf", " ", "Aldrs", " ", "wAlmnhj">>,
         <<"tqryr", " ", "mhny", " ", "yEks", " ", "AlmmArsAt", " ", "AltElymyp", " ", "AlfEAlp", " ", "wAltTwyr", " ", "Almstmr">> >>,
    steps |->
      << <<"bdOt", " ", "AlHSp", " ", "bAlthyQp", " ", "AlmnAsbp", " ", "vm", " ", "AlAntqAl", " ", "IlY", " ", "CrH", " ", "Almfhwm", " ", "AlrQysy">>,
         <<"tm", " ", "tqsym", " ", "AlTlAb", " ", "IlY", " ", "mjmwEAt", " ", "tEAwnyp", " ", "lmmArsp", " ", "AlOnCTp", " ", "AlEmlyp">>,
         <<"Cml", " ", "AltnfyV", " ", "AlErwD", " ", "Altqdymyp", " ", "wAltTbyqAt", " ", "AlEmlyp", " ", "wAltqwym", " ", "Almstmr">> >>,
    strategies |->
      << <<"AstxdAm", " ", "AltElm", " ", "AltEAwny", " ", "wAltElm", " ", "AlqAQm", " ", "ElY", " ", "AlmCAryE">>,
         <<"twZyf", " ", "AstrAtyjyAt", " ", "Altfkyr", " ", "AlnAqd", " ", "wAltElm", " ", "AlnCT">>,
         <<"dmj", " ", "Altqnyp", " ", "fy", " ", "AltElym", " ", "wAstxdAm", " ", "AlwsAQl", " ", "AlmtEddp">> >>,
    strengths |->
      << <<"tfAEl", " ", "AlTlAb", " ", "AlIyjAby", " ", "wmCArkthm", " ", "AlfEAlp", " ", "fy", " ", "AlOnCTp">>,
         <<"tnwE", " ", "AlwsAQl", " ", "AltElymyp", " ", "Almstxdmp", " ", "wmlAcmthA", " ", "lOhdAf", " ", "Aldrs">>,
         <<"IdArp", " ", "AlSf", " ", "AlfEAlp", " ", "wtnZym", " ", "Alwqt", " ", "bCkl", " ", "mnAsb">> >>,
    improve |->
      << <<"Altrkyz", " ", "ElY", " ", "AlTlAb", " ", "AlDEAf", " ", "wtqdym", " ", "dEm", " ", "IDAfy", " ", "lhm">>,
         <<"zyAdp", " ", "AstxdAm", " ", "Altqnyp", " ", "AltfAElyp", " ", "fy", " ", "AlCrH", " ", "wAltTbyq">>,
         <<"tnwyE", " ", "OsAlyb", " ", "Altqwym", " ", "lqyAs", " ", "jmyE", " ", "AlmhArAt">> >>,
    recomm |->
      << <<"twfyr", " ", "mzyd", " ", "mn", " ", "Altdryb", " ", "ElY", " ", "AstrAtyjyAt", " ", "AltElm", " ", "AlnCT">>,
         <<"tEzyz", " ", "AlCrAkp", " ", "mE", " ", "OwlyAc", " ", "AlOmwr", " ", "lmtAbEp", " ", "AltHSyl", " ", "AldrAsy">>,
         <<"tTwyr", " ", "bnk", " ", "AlOnCTp", " ", "AlIvrAQyp", " ", "ldEm", " ", "Almtfwqyn">> >> ]

\* <<u, v>>: word u occurs inside word v (computed over every word of the tables above).
SubstringPairs ==
  { <<"AlSf", "AlSfyp">>, <<"AlfEAl", "AlfEAlp">>, <<"AlmmArsAt", "bAlmmArsAt">>, <<"Almnhj", "wAlmnhj">>,
    <<"AltElm", "wAltElm">>, <<"AltElym", "AltElymyp">>, <<"AltTwyr", "AltTwyryp">>, <<"AltTwyr", "wAltTwyr">>,
    <<"AltnfyV", "wAltnfyV">>, <<"Altqwym", "wAltqwym">>, <<"Altrbwy", "Altrbwyp">>, <<"AstrAtyjyAt", "wAstrAtyjyAth">>,
    <<"AstxdAm", "wAstxdAm">>, <<"CrH", "AlCrH">>, <<"ElAjy", "ElAjyp">>, <<"IvrAQy", "AlIvrAQyp">>,
    <<"OhdAf", "AlOhdAf">>, <<"OhdAf", "lOhdAf">>, <<"bmA", "wbmA">>, <<"dEm", "AldEm">>,
    <<"dEm", "ldEm">>, <<"dEm", "tdEm">>, <<"dEm", "ydEm">>, <<"fAElyp", "AltfAElyp">>,
    <<"fy", "AlSfyp">>, <<"fy", "AltnfyV">>, <<"fy", "IDAfy">>, <<"fy", "tHfyz">>,
    <<"fy", "twfyr">>, <<"fy", "wAltnfyV">>, <<"lOhdAf", "AlOhdAf">>, <<"ldEm", "AldEm">>,
    <<"lmmArsp", "AlmmArsp">>, <<"mCArkp", "AlmCArkp">>, <<"mE", "AlmEAyyr">>, <<"mE", "AlmjtmEyp">>,
    <<"mE", "mEAyyr">>, <<"mEAyyr", "AlmEAyyr">>, <<"mhny", "Almhny">>, <<"mmA", "AlmmArsAt">>,
    <<"mmA", "AlmmArsp">>, <<"mmA", "bAlmmArsAt">>, <<"mmA", "lmmArsp">>, <<"mn", "AlmnAsbp">>,
    <<"mn", "AlmnCwdp">>, <<"mn", "AlmnfVp">>, <<"mn", "Almnhj">>, <<"mn", "mnAsb">>,
    <<"mn", "wAlmnhj">>, <<"mnAsb", "AlmnAsbp">>, <<"mstwY", "bmstwY">>, <<"ntAQj", "wntAQjhA">>,
    <<"nwAtj", "wnwAtj">>, <<"qyAs", "lqyAs">>, <<"tElm", "AltElm">>, <<"tElm", "lltElm">>,
    <<"tElm", "tElmyp">>, <<"tElm", "wAltElm">>, <<"tElymyp", "AltElymyp">>, <<"tEzyz", "wtEzyz">>,
    <<"tHqyq", "ltHqyq">>, <<"tHqyq", "wtHqyq">>, <<"tHsyn", "ltHsyn">>, <<"tTbyq", "wAltTbyq">>,
    <<"tTbyq", "wAltTbyqAt">>, <<"tTwyr", "AltTwyr">>, <<"tTwyr", "AltTwyryp">>, <<"tTwyr", "wAltTwyr">>,
    <<"tfAEl", "AltfAElyp">>, <<"tm", "AlmjtmEyp">>, <<"tm", "Almstmr">>, <<"tm", "tmACyAF">>,
    <<"tm", "wAltmyz">>, <<"tnwE", "mtnwEp">>, <<"tqyym", "tqyymy">>, <<"trbwyp", "Altrbwyp">>,
    <<"wAltTbyq", "wAltTbyqAt">>, <<"yEzz", "wyEzz">>, <<"ynsjm", "wynsjm">>, <<"yrtqy", "wyrtqy">>,
    <<"yshm", "wyshm">> }

\* <<u, v>>: word v starts with word u.
PrefixPairs ==
  { <<"AlSf", "AlSfyp">>, <<"AlfEAl", "AlfEAlp">>, <<"AltElym", "AltElymyp">>, <<"AltTwyr", "AltTwyryp">>,
    <<"Altrbwy", "Altrbwyp">>, <<"ElAjy", "ElAjyp">>, <<"mE", "mEAyyr">>, <<"mn", "mnAsb">>,
    <<"tElm", "tElmyp">>, <<"tm", "tmACyAF">>, <<"tqyym", "tqyymy">>, <<"wAltTbyq", "wAltTbyqAt">> }

\* <<u, v>>: word v ends with word u.
SuffixPairs ==
  { <<"AlmmArsAt", "bAlmmArsAt">>, <<"Almnhj", "wAlmnhj">>, <<"AltElm", "wAltElm">>, <<"AltTwyr", "wAltTwyr">>,
    <<"AltnfyV", "wAltnfyV">>, <<"Altqwym", "wAltqwym">>, <<"AstxdAm", "wAstxdAm">>, <<"CrH", "AlCrH">>,
    <<"OhdAf", "AlOhdAf">>, <<"OhdAf", "lOhdAf">>, <<"bmA", "wbmA">>, <<"dEm", "AldEm">>,
    <<"dEm", "ldEm">>, <<"dEm", "tdEm">>, <<"dEm", "ydEm">>, <<"fAElyp", "AltfAElyp">>,
    <<"fy", "IDAfy">>, <<"lOhdAf", "AlOhdAf">>, <<"ldEm", "AldEm">>, <<"lmmArsp", "AlmmArsp">>,
    <<"mCArkp", "AlmCArkp">>, <<"mEAyyr", "AlmEAyyr">>, <<"mhny", "Almhny">>, <<"mstwY", "bmstwY">>,
    <<"nwAtj", "wnwAtj">>, <<"qyAs", "lqyAs">>, <<"tElm", "AltElm">>, <<"tElm", "lltElm">>,
    <<"tElm", "wAltElm">>, <<"tElymyp", "AltElymyp">>, <<"tEzyz", "wtEzyz">>, <<"tHqyq", "ltHqyq">>,
    <<"tHqyq", "wtHqyq">>, <<"tHsyn", "ltHsyn">>, <<"tTbyq", "wAltTbyq">>, <<"tTwyr", "AltTwyr">>,
    <<"tTwyr", "wAltTwyr">>, <<"trbwyp", "Altrbwyp">>, <<"yEzz", "wyEzz">>, <<"ynsjm", "wynsjm">>,
    <<"yrtqy", "wyrtqy">>, <<"yshm", "wyshm">> }
-----------------------------------------------------------------------------
\* enrich_and_enforce                                        (main.py:467-559)

min_words == 25
max_words == 35

\* below this many words a text gets the high-value phrases first
very_short == 15

\* words kept free for the closing clause by the clause-aware trim
closing_room == 5

PartOf(u, v)   == u = v \/ <<u, v>> \in SubstringPairs
PrefixOf(u, v) == u = v \/ <<u, v>> \in PrefixPairs
SuffixOf(u, v) == u = v \/ <<u, v>> \in SuffixPairs

\* Python's `w in t` for strings: w occurs in t as a substring.  The first
\* and the last symbol of w may lie inside a longer word of t.
Contains(t, w) ==
  LET n == Len(w)
  IN  IF n = 0 THEN TRUE
      ELSE IF n = 1 THEN \E i \in 1..Len(t) : PartOf(w[1], t[i])
      ELSE \E i \in 1..(Len(t) - n + 1) :
             /\ SuffixOf(w[1], t[i])
             /\ \A j \in 2..(n - 1) : t[i + j - 1] = w[j]
             /\ PrefixOf(w[n], t[i + n - 1])

\* the phrases of every context keyword that occurs in the report type
RECURSIVE ContextPhrases(_, _)
ContextPhrases(rt, k) ==
  IF k > Len(context_keywords) THEN <<>>
  ELSE (IF Contains(rt, context_keywords[k].keyword)
          THEN context_keywords[k].phrases ELSE <<>>)
       \o ContextPhrases(rt, k + 1)

\* the phrase set the padding draws from
EnrichmentPhrases(rt) ==
  LET matched == ContextPhrases(rt, 1)
  IN  IF matched = <<>> THEN LINGUISTIC_ENRICHMENT ELSE matched

\* the loop over enhancements[:cnt]
RECURSIVE Enhance(_, _, _)
Enhance(t, i, cnt) ==
  IF i > cnt THEN t
  ELSE Enhance(IF WordCount(t) < min_words THEN t \o <<" ">> \o enhancements[i] ELSE t,
               i + 1, cnt)

\* the text when the padding loop is reached
AddEnhancements(t) ==
  LET n            == WordCount(t)
      words_needed == min_words - n
  IN  IF n < min_words /\ n < very_short
        THEN Enhance(t, 1, Min2(2, words_needed \div 10))
        ELSE t

\* a phrase is appended only when none of its first three words occurs in the text
Fits(phrase, t) ==
  LET ws == Words(phrase)
  IN  ~ \E k \in 1..Min2(3, Len(ws)) : Contains(t, ws[k])

\* the loop over the clauses: stops at the first clause that does not fit
RECURSIVE Accumulate(_, _, _, _)
Accumulate(sentences, i, trimmed_text, current_words) ==
  IF i > Len(sentences) THEN [text |-> trimmed_text, count |-> current_words]
  ELSE LET n == WordCount(sentences[i])
       IN  IF current_words + n <= max_words - closing_room
             THEN Accumulate(sentences, i + 1,
                             IF trimmed_text # <<>>
                               THEN trimmed_text \o <<AR_COMMA, " ">> \o sentences[i]
                               ELSE sentences[i],
                             current_words + n)
             ELSE [text |-> trimmed_text, count |-> current_words]

\* the clause-aware cut
ClauseTrim(t) ==
  LET sentences == SplitOn(t, AR_COMMA)
  IN  IF Len(sentences) > 1
        THEN LET acc == Accumulate(sentences, 1, <<>>, 0)
             IN  IF acc.count >= min_words THEN acc.text \o closing_clause ELSE t
        ELSE t

\* a trim that forgets the hard truncation
HardTruncateOff(ws) == Join(ws, <<" ">>)

\* " ".join(words[:max_words])
HardTruncate(ws) == Join(SubSeq(ws, 1, Min2(max_words, Len(ws))), <<" ">>)

Trim(t) ==
  IF WordCount(t) > max_words
    THEN LET t1 == ClauseTrim(t)
         IN  IF WordCount(t1) > max_words THEN HardTruncate(Words(t1)) ELSE t1
    ELSE t

Finalize(t) ==
  LET s == Strip(ReplaceDoubleSpace(t))
  IN  IF s # <<>> /\ s[Len(s)] \notin {".", "!", AR_QMARK} THEN s \o <<".">> ELSE s

\* enrich_and_enforce on a text of min_words words or more: the padding loop
\* is not entered, so the result is the text trimmed and finalized
EnrichSettled(t) == Finalize(Trim(t))

\* lines 471-515: the empty text is returned as it is; a short text gets the
\* high-value phrases and enters the padding loop
EnrichStart ==
  /\ epc = "start"
  /\ IF WordCount(text) = 0
       THEN /\ epc' = "done"
            /\ text' = text
       ELSE /\ epc' = "pad"
            /\ text' = AddEnhancements(text)
  /\ UNCHANGED <<credVars, serverVars, report_type, raw, parsed, ppc, idx, arg, rng>>

\* lines 517-524: one iteration of the padding loop, random.choice returning
\* the i-th phrase
PadStep(i) ==
  /\ epc = "pad"
  /\ WordCount(text) < min_words
  /\ LET phrase == EnrichmentPhrases(report_type)[i]
     IN  text' = IF Fits(phrase, text) THEN text \o <<" ">> \o phrase ELSE text
  /\ UNCHANGED <<credVars, serverVars, report_type, raw, parsed, ppc, idx, arg, epc>>

\* lines 526-559: trim, tidy up, return
EnrichFinish ==
  /\ epc = "pad"
  /\ WordCount(text) >= min_words
  /\ text' = Finalize(Trim(text))
  /\ epc' = "done"
  /\ UNCHANGED <<credVars, serverVars, report_type, raw, parsed, ppc, idx, arg, rng>>

\* the padding loop with an unconstrained random source
PadFree ==
  /\ \E i \in 1..Len(EnrichmentPhrases(report_type)) : PadStep(i)
  /\ UNCHANGED rng

-----------------------------------------------------------------------------
\* parse_ai_response                                         (main.py:709-794)

\* the keys of the parsed dict, in insertion order
Keys == <<"goal", "summary", "steps", "strategies", "strengths", "improve", "recomm">>

\* current_field before the first marker
NoField == ""

EmptyParsed == [k \in {Keys[i] : i \in 1..Len(Keys)} |-> <<>>]

\* the field a stripped line opens: k when the line starts with the Latin or
\* the Arabic-Indic digit k followed by a full stop, 0 when it opens none
Opens(line) ==
  LET ks == {k \in 1..Len(Keys) :
               \/ StartsWith(line, <<LatinDigits[k], ".">>)
               \/ StartsWith(line, <<ArabicDigits[k], ".">>)}
  IN  IF ks = {} THEN 0 ELSE CHOOSE k \in ks : \A j \in ks : k <= j

\* line.startswith(('1', ..., '7', <the Arabic-Indic digits 1 to 7>))
StartsWithDigit(line) ==
  line # <<>> /\ \E k \in 1..Len(Keys) : line[1] = LatinDigits[k] \/ line[1] = ArabicDigits[k]

\* the assignment parsed[current_field] = ' '.join(field_content).strip(),
\* made when a field is open and its buffer is not the empty list
Flush(dict, current_field, field_content) ==
  IF current_field # NoField /\ field_content # <<>>
    THEN [dict EXCEPT ![current_field] = Strip(Join(field_content, <<" ">>))]
    ELSE dict

\* the loop over the lines and the flush of the last field
RECURSIVE ParseLines(_, _, _, _, _)
ParseLines(lines, i, current_field, field_content, dict) ==
  IF i > Len(lines) THEN Flush(dict, current_field, field_content)
  ELSE LET line == Strip(lines[i])
           k    == Opens(line)
       IN  IF k > 0
             THEN ParseLines(lines, i + 1, Keys[k], <<Strip(Drop(line, 2))>>,
                             Flush(dict, current_field, field_content))
           ELSE IF current_field # NoField /\ line # <<>> /\ ~StartsWithDigit(line)
             THEN ParseLines(lines, i + 1, current_field, Append(field_content, line), dict)
           ELSE ParseLines(lines, i + 1, current_field, field_content, dict)

\* lines 712-777: the fields as extracted, before enrichment
Extract(response_text) == ParseLines(SplitOn(response_text, NL), 1, NoField, <<>>, EmptyParsed)

\* the seeded random source: the index random.choice returns among n items,
\* and the state after a draw
RandIndex(r, n) == (r % n) + 1
NextRng(r)      == (5 * r + 3) % 16

\* lines 712-777
ParseExtract ==
  /\ ppc = "start"
  /\ parsed' = Extract(raw)
  /\ ppc' = "enrich"
  /\ idx' = 1
  /\ UNCHANGED <<credVars, serverVars, report_type, raw, text, epc, arg, rng>>

\* lines 780-782: the next key of the dict; a field that is not empty is
\* handed to enrich_and_enforce
EnrichField ==
  /\ ppc = "enrich" /\ epc = "off" /\ idx <= Len(Keys)
  /\ IF parsed[Keys[idx]] # <<>>
       THEN /\ arg' = parsed[Keys[idx]]
            /\ text' = parsed[Keys[idx]]
            /\ epc' = "start"
            /\ UNCHANGED idx
       ELSE /\ idx' = idx + 1
            /\ UNCHANGED <<arg, text, epc>>
  /\ UNCHANGED <<credVars, serverVars, report_type, raw, parsed, ppc, rng>>

\* the value enrich_and_enforce returned is stored under the key
EnrichReturn ==
  /\ ppc \in {"enrich", "fallback"} /\ epc = "done"
  /\ parsed' = [parsed EXCEPT ![Keys[idx]] = text]
  /\ idx' = idx + 1
  /\ epc' = "off"
  /\ UNCHANGED <<credVars, serverVars, report_type, raw, ppc, text, arg, rng>>

\* not any(parsed.values())
AllEmpty(dict) == \A i \in 1..Len(Keys) : dict[Keys[i]] = <<>>

\* line 785: the fallback corpus is used when every field is empty
StartFallback ==
  /\ ppc = "enrich" /\ epc = "off" /\ idx > Len(Keys)
  /\ AllEmpty(parsed)
  /\ ppc' = "fallback"
  /\ idx' = 1
  /\ UNCHANGED <<credVars, serverVars, report_type, raw, parsed, text, epc, arg, rng>>

\* lines 786-792: a random text of the key's corpus is handed to
\* enrich_and_enforce
FallbackField ==
  /\ ppc = "fallback" /\ epc = "off" /\ idx <= Len(Keys)
  /\ LET corpus == DEFAULT_REPORT_TEXTS[Keys[idx]]
         choice == corpus[RandIndex(rng, Len(corpus))]
     IN  /\ arg' = choice
         /\ text' = choice
  /\ rng' = NextRng(rng)
  /\ epc' = "start"
  /\ UNCHANGED <<credVars, serverVars, report_type, raw, parsed, ppc, idx>>

\* line 794
ParseReturn ==
  /\ epc = "off" /\ idx > Len(Keys)
  /\ \/ ppc = "enrich" /\ ~AllEmpty(parsed)
     \/ ppc = "fallback"
  /\ ppc' = "done"
  /\ UNCHANGED <<credVars, serverVars, report_type, raw, parsed, idx, text, epc, arg, rng>>

\* the padding loop drawing from the seeded random source
PadSeeded ==
  /\ PadStep(RandIndex(rng, Len(EnrichmentPhrases(report_type))))
  /\ rng' = NextRng(rng)

-----------------------------------------------------------------------------
\* Inputs of the text pipeline

\* the longest input text, in filler words
MaxWords == 40

\* a comma follows every gap-th filler word (0: no commas)
CommaGaps == {0, 7, 13, 30}

\* report type hints: none, "activity report" (main.py:150, selects a context
\* word set) and "remedial plan report" (main.py:118, selects none)
ReportTypes ==
  { <<>>,
    <<"tqryr", " ", "nCAT", " ", "IvrAQy">>,
    <<"tqryr", " ", "xTp", " ", "ElAjyp">> }

\* words that occur among the first three words of every generic phrase
CommonWords == <<"mn", " ", "mE", " ", "mhny", " ", "wfq", " ", "bnAc">>

FillerWord(i, gap, spaced) ==
  IF gap > 0 /\ i % gap = 0
    THEN (IF spaced THEN <<"x", " ", AR_COMMA>> ELSE <<"x", AR_COMMA>>)
    ELSE <<"x">>

FillerText(n, gap, spaced) == Join([i \in 1..n |-> FillerWord(i, gap, spaced)], <<" ">>)

EnforceInputs ==
  {<<>>} \cup
  { Join(SelectSeq(<<lead, FillerText(n, gap, spaced)>>, LAMBDA s : s # <<>>), <<" ">>) :
      lead \in {<<>>, CommonWords}, n \in 1..MaxWords, gap \in CommaGaps,
      spaced \in BOOLEAN }

-----------------------------------------------------------------------------
\* Secrets, time and durations

JWT_SECRET  == "CHANGE_ME_SECRET"
ADMIN_TOKEN == "FahadJassar14061436"

\* clock ticks per second: datetime values are finer than the whole seconds
\* a token's exp claim holds
TicksPerSecond == 2

Seconds(n) == n * TicksPerSecond

DURATIONS ==
  ("5m" :> Seconds(5 * 60)) @@ ("30m" :> Seconds(30 * 60)) @@
  ("1h" :> Seconds(3600)) @@ ("3h" :> Seconds(3 * 3600)) @@
  ("1d" :> Seconds(86400)) @@ ("3d" :> Seconds(3 * 86400)) @@
  ("7d" :> Seconds(7 * 86400)) @@ ("30d" :> Seconds(30 * 86400)) @@
  ("90d" :> Seconds(90 * 86400)) @@ ("150d" :> Seconds(150 * 86400))

-----------------------------------------------------------------------------
\* Codes, hashes and tokens

Digits   == <<"0", "1", "2", "3", "4", "5", "6", "7", "8", "9">>
LowerHex == <<"a", "b", "c", "d", "e", "f">>
UpperHex == <<"A", "B", "C", "D", "E", "F">>

InSeq(s, c) == \E i \in 1..Len(s) : s[i] = c
Pos(s, c)   == CHOOSE i \in 1..Len(s) : s[i] = c

\* str.upper() on the characters of a code
Upper(s) ==
  [i \in 1..Len(s) |-> IF InSeq(LowerHex, s[i]) THEN UpperHex[Pos(LowerHex, s[i])] ELSE s[i]]

\* secrets.token_hex(3): six lowercase hex digits; the outputs the model draws
TokenHexOutputs ==
  { <<"a", "1", "b", "2", "c", "3">> }

\* generate_short_code, for a given output of token_hex
generate_short_code(hex) == Upper(hex)

\* str.encode(): the byte of a character
Byte(c) ==
  IF InSeq(Digits, c) THEN 47 + Pos(Digits, c)
  ELSE IF InSeq(UpperHex, c) THEN 64 + Pos(UpperHex, c)
  ELSE IF InSeq(LowerHex, c) THEN 96 + Pos(LowerHex, c)
  ELSE 32

\* number of hex digits of a digest (a SHA-256 hexdigest has 64)
HashLen == 4

RECURSIVE Pow16(_)
Pow16(n) == IF n = 0 THEN 1 ELSE 16 * Pow16(n - 1)

\* the digest of a byte string, as a number: a mixing function standing in
\* for SHA-256
RECURSIVE Mix(_, _)
Mix(s, h) ==
  IF s = <<>> THEN h
  ELSE Mix(Tail(s), (h * 33 + Byte(Head(s))) % Pow16(HashLen))

\* hexdigest(): HashLen lowercase hex digits
HexDigest(n) ==
  [i \in 1..HashLen |-> (Digits \o LowerHex)[((n \div Pow16(HashLen - i)) % 16) + 1]]

\* a store keyed by the code itself
hash_code_plain(code) == code

hash_code(code) == HexDigest(Mix(code, 5381))

\* VALID_CODES.get(code_hash) of an absent key
None == -1

\* jwt.encode: a datetime exp claim is stored as whole seconds since the epoch
NumericDate(t) == t \div TicksPerSecond

\* a token that outlives its code by an hour
create_jwt_extended(expires_at) ==
  [type |-> "activation", exp |-> NumericDate(expires_at + DURATIONS["1h"]), sig |-> JWT_SECRET]

create_jwt(expires_at) ==
  [type |-> "activation", exp |-> NumericDate(expires_at), sig |-> JWT_SECRET]

NoToken == [type |-> "", exp |-> 0, sig |-> ""]

\* jwt.decode: the signature is checked first, then exp against the current time
verify_jwt(token, t) ==
  IF token.sig # JWT_SECRET
    THEN [status |-> 401, detail |-> "INVALID_TOKEN"]
  ELSE IF Seconds(token.exp) <= t
    THEN [status |-> 401, detail |-> "TOKEN_EXPIRED"]
  ELSE [status |-> 200, detail |-> "ok"]

-----------------------------------------------------------------------------
\* Inputs of the activation endpoints

\* request threads that can be inside activate at the same time
Threads == {1, 2}

\* activate calls per run
MaxCalls == 2

\* clock advances per run
MaxAdvances == 2

\* the clock advances by one tick or by five minutes
ClockSteps == {1, DURATIONS["5m"]}

AdminKeyInputs == {ADMIN_TOKEN, "guess"}

DurationInputs == {"5m", "2h"}

DisplayCodes == {generate_short_code(hex) : hex \in TokenHexOutputs}

\* what a client may send as the code: a displayed code, the same in lower
\* case or surrounded by blanks, an unknown code, blanks, nothing
ActivateInputs ==
  DisplayCodes \cup
  { <<"a", "1", "b", "2", "c", "3">>,
    <<" ", "A", "1", "B", "2", "C", "3", " ">>,
    <<"9", "9", "9", "9", "9", "9">>,
    <<" ", " ">> }

\* tokens a client may present besides the ones it was issued: one signed
\* with another secret, and one of another type signed with the process secret
ForgedTokens ==
  { [type |-> "activation", exp |-> DURATIONS["1h"] \div TicksPerSecond, sig |-> "guess"],
    [type |-> "session", exp |-> DURATIONS["1h"] \div TicksPerSecond, sig |-> JWT_SECRET] }

-----------------------------------------------------------------------------
\* The activation endpoints

Response(op, key, status, detail, code, expires_at, token) ==
  [op |-> op, key |-> key, status |-> status, detail |-> detail,
   code |-> code, expires_at |-> expires_at, token |-> token,
   time |-> IF op = "verify" THEN now ELSE 0]

NoResponse ==
  [op |-> "", key |-> "", status |-> 0, detail |-> "",
   code |-> <<>>, expires_at |-> None, token |-> NoToken, time |-> 0]

Result(status, detail, token, expires_at, code_hash, state) ==
  [status |-> status, detail |-> detail, token |-> token,
   expires_at |-> expires_at, code_hash |-> code_hash, state |-> state]

NoResult == Result(0, "", NoToken, None, <<>>, "")

NoLocal == [code_hash |-> <<>>, expires_at |-> None, used |-> FALSE]

\* an admin check that lets every key through
AuthorizedAny(key) == TRUE

\* the admin check of generate_code
Authorized(key) == key = ADMIN_TOKEN

\* dict assignment and dict.pop
Put(store, k, v) == [h \in DOMAIN store \cup {k} |-> IF h = k THEN v ELSE store[h]]
Pop(store, k)    == [h \in DOMAIN store \ {k} |-> store[h]]

\* GET /generate-code                                        (main.py:576-594)
GenerateCode(key, duration) ==
  /\ IF ~Authorized(key)
       THEN /\ response' = Response("generate-code", key, 403, "Forbidden", <<>>, None, NoToken)
            /\ UNCHANGED <<VALID_CODES, generated, redeemCount>>
     ELSE IF duration \notin DOMAIN DURATIONS
       THEN /\ response' = Response("generate-code", key, 400, "Invalid duration", <<>>, None, NoToken)
            /\ UNCHANGED <<VALID_CODES, generated, redeemCount>>
     ELSE \E hex \in TokenHexOutputs :
            LET code       == generate_short_code(hex)
                code_hash  == hash_code(code)
                expires_at == now + DURATIONS[duration]
            IN  /\ VALID_CODES' = Put(VALID_CODES, code_hash, expires_at)
                /\ response' = Response("generate-code", key, 200, duration, code, expires_at, NoToken)
                /\ generated' = generated \cup {code}
                /\ redeemCount' = Put(redeemCount, code_hash, 0)
  /\ UNCHANGED <<now, advances, pc, local, result, overlap, calls, reportVars, serverVars>>

\* a request is served by the first idle thread
FreeWorker(t) == pc[t] = "idle" /\ \A u \in Threads : u < t => pc[u] # "idle"

\* POST /activate, lines 601-606: strip the code, reject an empty one, look
\* the hash up in the store
ActivateLookup(t, input) ==
  /\ FreeWorker(t)
  /\ calls < MaxCalls
  /\ calls' = calls + 1
  /\ LET code == Strip(input)
     IN  IF code = <<>>
           THEN /\ result' = [result EXCEPT ![t] =
                               Result(400, "CODE_REQUIRED", NoToken, None, <<>>, "malformed")]
                /\ UNCHANGED <<pc, local, overlap>>
           ELSE LET code_hash == hash_code(code)
                    inside    == {u \in Threads : pc[u] = "check"}
                IN  /\ local' = [local EXCEPT ![t] =
                                  [code_hash  |-> code_hash,
                                   expires_at |-> IF code_hash \in DOMAIN VALID_CODES
                                                    THEN VALID_CODES[code_hash] ELSE None,
                                   used       |-> code_hash \in DOMAIN redeemCount
                                                    /\ redeemCount[code_hash] > 0]]
                    /\ pc' = [pc EXCEPT ![t] = "check"]
                    /\ overlap' = [u \in Threads |->
                                     IF u = t THEN inside
                                     ELSE IF u \in inside THEN overlap[u] \cup {t}
                                     ELSE overlap[u]]
                    /\ result' = [result EXCEPT ![t] = NoResult]
  /\ response' = NoResponse
  /\ UNCHANGED <<VALID_CODES, now, advances, generated, redeemCount, reportVars, serverVars>>

\* POST /activate, lines 608-620: reject an unknown code, evict and reject an
\* expired one, otherwise issue the token
ActivateCheck(t) ==
  /\ pc[t] = "check"
  /\ pc' = [pc EXCEPT ![t] = "idle"]
  /\ local' = [local EXCEPT ![t] = NoLocal]
  /\ LET code_hash  == local[t].code_hash
         expires_at == local[t].expires_at
     IN  IF expires_at = None
           THEN /\ result' = [result EXCEPT ![t] =
                               Result(403, "INVALID_CODE", NoToken, None, code_hash, "unknown")]
                /\ UNCHANGED <<VALID_CODES, redeemCount>>
         ELSE IF expires_at < now
           THEN /\ VALID_CODES' = Pop(VALID_CODES, code_hash)
                /\ result' = [result EXCEPT ![t] =
                               Result(403, "CODE_EXPIRED", NoToken, None, code_hash,
                                      IF local[t].used THEN "used" ELSE "expired")]
                /\ UNCHANGED redeemCount
         ELSE LET token == create_jwt(expires_at)
              IN  /\ result' = [result EXCEPT ![t] =
                                 Result(200, "ok", token, expires_at, code_hash,
                                        IF local[t].used THEN "used" ELSE "active")]
                  /\ redeemCount' = [redeemCount EXCEPT ![code_hash] = @ + 1]
                  /\ UNCHANGED VALID_CODES
  /\ response' = NoResponse
  /\ UNCHANGED <<now, advances, overlap, generated, calls, reportVars, serverVars>>

\* the tokens the clients hold: the ones in the last responses of activate
IssuedTokens == {result[t].token : t \in {u \in Threads : result[u].status = 200}}

\* GET /verify                                               (main.py:625-628)
Verify(token) ==
  /\ LET r == verify_jwt(token, now)
     IN  response' = Response("verify", "", r.status, r.detail, <<>>, None, token)
  /\ UNCHANGED <<VALID_CODES, now, advances, pc, local, result, overlap, generated,
                 redeemCount, calls, reportVars, serverVars>>

\* time passes
Tick(d) ==
  /\ advances < MaxAdvances
  /\ advances' = advances + 1
  /\ now' = now + d
  /\ response' = NoResponse
  /\ UNCHANGED <<VALID_CODES, pc, local, result, overlap, generated,
                 redeemCount, calls, reportVars, serverVars>>

ReportIdle ==
  /\ report_type = <<>>
  /\ raw = <<>>
  /\ parsed = EmptyParsed
  /\ ppc = "off"
  /\ idx = 0
  /\ text = <<>>
  /\ epc = "off"
  /\ arg = <<>>
  /\ rng = 0

\* no AI-backed request has been received
NoRequest ==
  [op |-> "", token |-> NoToken, reportType |-> <<>>, verdict |-> 0,
   aiCalls |-> 0, status |-> 0]

\* nothing was handed out before a restart
NoStale == [codes |-> {}, tokens |-> {}]

CredInit ==
  /\ request = NoRequest
  /\ rpc = "idle"
  /\ stale = NoStale
  /\ restarts = 0
  /\ VALID_CODES = <<>>
  /\ now = 0
  /\ advances = 0
  /\ pc = [t \in Threads |-> "idle"]
  /\ local = [t \in Threads |-> NoLocal]
  /\ result = [t \in Threads |-> NoResult]
  /\ overlap = [t \in Threads |-> {}]
  /\ response = NoResponse
  /\ generated = {}
  /\ redeemCount = <<>>
  /\ calls = 0

Init == CredInit /\ ReportIdle

Next ==
  \/ \E key \in AdminKeyInputs, duration \in DurationInputs : GenerateCode(key, duration)
  \/ \E t \in Threads, input \in ActivateInputs : ActivateLookup(t, input)
  \/ \E t \in Threads : ActivateCheck(t)
  \/ \E token \in IssuedTokens \cup ForgedTokens : Verify(token)
  \/ \E d \in ClockSteps : Tick(d)

Spec == Init /\ [][Next]_vars

\* process restarts per run
MaxRestarts == 1

\* The process restarts: the module is loaded again, so VALID_CODES is the
\* empty dict of line 70 and the requests in flight are gone.  JWT_SECRET is
\* read from the same environment (line 18).  What the clients hold, the
\* codes handed out and the tokens issued so far, is remembered in stale.
Restart ==
  /\ restarts < MaxRestarts
  /\ restarts' = restarts + 1
  /\ VALID_CODES' = <<>>
  /\ pc' = [t \in Threads |-> "idle"]
  /\ local' = [t \in Threads |-> NoLocal]
  /\ stale' = [codes |-> stale.codes \cup generated, tokens |-> stale.tokens \cup IssuedTokens]
  /\ result' = [t \in Threads |-> NoResult]
  /\ overlap' = [t \in Threads |-> {}]
  /\ response' = NoResponse
  /\ generated' = {}
  /\ redeemCount' = <<>>
  /\ UNCHANGED <<now, advances, calls, reportVars, request, rpc>>

\* the activation endpoints of a process that may restart; a client may
\* present a token it was issued before the restart
NextRestart ==
  \/ Next
  \/ Restart
  \/ \E token \in stale.tokens : Verify(token)

SpecRestart == Init /\ [][NextRestart]_vars

-----------------------------------------------------------------------------
\* Properties of the activation endpoints

\* C1: a code is redeemed at most once: no code has produced more than one
\* token since it was generated.
C1_SingleUse ==
  \A h \in DOMAIN redeemCount : redeemCount[h] <= 1

\* C2: of two activate calls that overlap in time on one fresh code, at most
\* one returns a token.
C2_ConcurrentRedeemOnce ==
  \A t \in Threads, u \in Threads :
    (/\ t # u
     /\ u \in overlap[t]
     /\ result[t].status = 200 /\ result[t].state = "active"
     /\ result[u].status = 200 /\ result[u].state = "active")
    => result[t].code_hash # result[u].code_hash

\* s occurs in t as a run of consecutive characters
Infix(s, t) == \E i \in 0..(Len(t) - Len(s)) : SubSeq(t, i + 1, i + Len(s)) = s

\* C6: every key of the store is the hash of a generated code, no key is or
\* contains a generated code, and the stored values are expiry times only.
C6_OnlyHashStored ==
  \A h \in DOMAIN VALID_CODES :
    /\ \E c \in generated : h = hash_code(c)
    /\ \A c \in generated : ~Infix(c, h)
    /\ VALID_CODES[h] \in Nat

\* a code has been generated and handed to the caller in plain text while its
\* hash is in the store
C6_Witness ==
  /\ response.op = "generate-code" /\ response.status = 200
  /\ response.code \in generated
  /\ hash_code(response.code) \in DOMAIN VALID_CODES

\* C7 as stated: the expiry a token carries is the very instant stored for
\* the code it was redeemed from.
C7_ExpEqualsStored ==
  \A t \in Threads :
    result[t].status = 200 => Seconds(result[t].token.exp) = result[t].expires_at

\* C7 as amended: the expiry a token carries is the stored expiry cut down to
\* a whole second, so it is never later than the stored expiry, and verify
\* accepts no issued token at a time later than the stored expiry.
C7_ExpTruncatedNeverLater ==
  /\ \A t \in Threads :
       result[t].status = 200 =>
         /\ result[t].token.exp = result[t].expires_at \div TicksPerSecond
         /\ Seconds(result[t].token.exp) <= result[t].expires_at
  /\ (response.op = "verify" /\ response.status = 200)
       => \A t \in Threads :
            (result[t].status = 200 /\ result[t].token = response.token)
              => response.time <= result[t].expires_at

\* a token redeemed from a code whose expiry is not a whole second has been
\* accepted by verify
C7_Witness ==
  /\ response.op = "verify" /\ response.status = 200
  /\ \E t \in Threads :
       /\ result[t].status = 200 /\ result[t].token = response.token
       /\ result[t].expires_at % TicksPerSecond # 0

\* C8: a generate_code call with a wrong admin key answers 403 and leaves the
\* store as it was, and every step that adds or changes a store entry is a
\* generate_code call that presented the admin key.
C8_AdminGated ==
  [][ /\ \A key \in AdminKeyInputs \ {ADMIN_TOKEN}, duration \in DurationInputs :
           GenerateCode(key, duration) => (VALID_CODES' = VALID_CODES /\ response'.status = 403)
      /\ \A h \in DOMAIN VALID_CODES' :
           (h \notin DOMAIN VALID_CODES \/ VALID_CODES'[h] # VALID_CODES[h])
             => (response'.op = "generate-code" /\ response'.key = ADMIN_TOKEN
                 /\ response'.status = 200) ]_vars

\* a call with a wrong admin key has been refused while the store holds a code
C8_Witness ==
  /\ response.op = "generate-code" /\ response.key # ADMIN_TOKEN
  /\ response.status = 403
  /\ DOMAIN VALID_CODES # {}

\* C9: the error of activate follows the state of the code: 400 for an empty
\* code, 404 for an unknown one, 410 for a used or expired one, and no error
\* carries a token.
C9_ErrorOutcomes ==
  \A t \in Threads :
    /\ result[t].state = "malformed" => result[t].status = 400
    /\ result[t].state = "unknown" => result[t].status = 404
    /\ result[t].state \in {"used", "expired"} => result[t].status = 410
    /\ result[t].status # 200 => result[t].token = NoToken

\* C10: verify accepts a token exactly when it is signed with the process
\* secret, its exp has not elapsed and its type is the activation type; every
\* other token is answered 401.
C10_VerifyIff ==
  response.op = "verify" =>
    /\ response.status = 200 <=>
         (/\ response.token.sig = JWT_SECRET
          /\ Seconds(response.token.exp) > response.time
          /\ response.token.type = "activation")
    /\ response.status # 200 => response.status = 401

-----------------------------------------------------------------------------
\* Specification of parse_ai_response

\* seeds of the random source
MaxSeed == 2

\* words of a field that needs no padding
FullField == 30

\* a line "<digit>. x x ... x" with n words
Marked(digit, n) == <<digit, ".", " ">> \o FillerText(n, 0, FALSE)

\* seven marked fields, the first given and the others of full length with a
\* full stop
Report7(first) ==
  Join([k \in 1..7 |-> IF k = 1 THEN <<"1", ".", " ">> \o first
                                ELSE Marked(LatinDigits[k], FullField) \o <<".">>], <<NL>>)

\* raw AI texts: empty; without markers; markers 1 to 3 only; the seven
\* Arabic-Indic markers; markers out of order; seven fields of full length;
\* text before the first marker, continuation lines and a blank line; seven
\* full fields each ending with a full stop; the same with three blanks after
\* the first word; markers written "1)" and "2-"; lines that begin with a
\* number and are no marker
RawInputs ==
  { <<>>,
    Report7(FillerText(FullField, 0, FALSE) \o <<".">>),
    Join(<<<<"1", ")", " ", "x", " ", "x">>, <<"2", "-", " ", "x">>, Marked("3", 2)>>, <<NL>>),
    Join(<<Marked("1", 2), <<"1", "0", ".", " ", "x">>, <<"2", " ", "x">>,
           <<"8", ".", " ", "x">>>>, <<NL>>),
    Report7(<<"x", " ", " ", " ">> \o FillerText(FullField - 1, 0, FALSE) \o <<".">>),
    FillerText(3, 0, FALSE),
    Join(<<Marked("1", 3), Marked("2", 2), Marked("3", 1)>>, <<NL>>),
    Join([k \in 1..7 |-> Marked(ArabicDigits[k], FullField)], <<NL>>),
    Join(<<Marked("7", FullField), Marked("3", FullField), Marked("1", 20)>>, <<NL>>),
    Join([k \in 1..7 |-> Marked(LatinDigits[k], FullField)], <<NL>>),
    Join(<<FillerText(2, 0, FALSE), Marked("1", 22), <<" ", "x", " ", "x">>, <<>>,
           Marked("2", FullField)>>, <<NL>>) }

InitReport ==
  /\ CredInit
  /\ report_type \in ReportTypes
  /\ raw \in RawInputs
  /\ rng \in 0..MaxSeed
  /\ parsed = EmptyParsed
  /\ ppc = "start"
  /\ idx = 0
  /\ text = <<>>
  /\ epc = "off"
  /\ arg = <<>>

NextReport ==
  \/ ParseExtract
  \/ EnrichField
  \/ EnrichStart
  \/ PadSeeded
  \/ EnrichFinish
  \/ EnrichReturn
  \/ StartFallback
  \/ FallbackField
  \/ ParseReturn

SpecReport == InitReport /\ [][NextReport]_vars

-----------------------------------------------------------------------------
\* Specification of enrich_and_enforce called on its own

InitEnforce ==
  /\ CredInit
  /\ report_type \in ReportTypes
  /\ arg \in EnforceInputs
  /\ text = arg
  /\ epc = "start"
  /\ raw = <<>>
  /\ parsed = EmptyParsed
  /\ ppc = "off"
  /\ idx = 0
  /\ rng = 0

NextEnforce == EnrichStart \/ PadFree \/ EnrichFinish

SpecEnforce == InitEnforce /\ [][NextEnforce]_vars

\* C12: a restart discards all credentials: after it, a code is redeemed only
\* if it was generated since the restart, and verify accepts no token that
\* was issued before the restart and not issued again since.
C12_RestartDiscardsCredentials ==
  restarts > 0 =>
    /\ \A t \in Threads :
         result[t].status = 200 => \E c \in generated : result[t].code_hash = hash_code(c)
    /\ (response.op = "verify" /\ response.status = 200)
         => response.token \notin (stale.tokens \ IssuedTokens)

\* C13: activate trims and uppercases the code before hashing it: a call whose
\* input differs from a stored display code only by surrounding blanks or by
\* letter case looks up the entry of that display code.
C13_NormalizedRedeem ==
  [][ \A t \in Threads, input \in ActivateInputs :
        (/\ ActivateLookup(t, input)
         /\ Upper(Strip(input)) \in generated
         /\ hash_code(Upper(Strip(input))) \in DOMAIN VALID_CODES)
        => /\ local'[t].code_hash = hash_code(Upper(Strip(input)))
           /\ local'[t].expires_at = VALID_CODES[hash_code(Upper(Strip(input)))] ]_vars

\* C15: no code is made active again: no step changes the expiry of an entry
\* that is in the store, and no step puts back the entry of a code that was
\* generated before and has left the store.
C15_NeverReactivated ==
  [][ \A h \in DOMAIN VALID_CODES' :
        IF h \in DOMAIN VALID_CODES
          THEN VALID_CODES'[h] = VALID_CODES[h]
          ELSE h \notin DOMAIN redeemCount ]_vars

-----------------------------------------------------------------------------
\* The AI-backed endpoints: /generate, /generate/report, /consult/educational

\* the endpoints that call the AI model
AIEndpoints == {"generate", "generate/report", "consult/educational"}

\* tokens a client may present: one issued for a code that is still valid, one
\* whose expiry has passed, and the forged ones
RequestTokens ==
  {create_jwt(DURATIONS["5m"]), create_jwt(0)} \cup ForgedTokens

\* a request arrives with its X-Token header and, for /generate/report, its
\* reportType
ReceiveRequest(op, token, reportType) ==
  /\ rpc = "idle"
  /\ request' = [NoRequest EXCEPT !.op = op, !.token = token, !.reportType = reportType]
  /\ rpc' = "verify"
  /\ UNCHANGED <<credVars, reportVars, stale, restarts>>

\* a handler that goes on whatever verify_jwt answered
RequestVerifyIgnored ==
  /\ rpc = "verify"
  /\ request' = [request EXCEPT !.verdict = verify_jwt(request.token, now).status]
  /\ rpc' = IF request.op = "generate/report" THEN "type" ELSE "ai"
  /\ UNCHANGED <<credVars, reportVars, stale, restarts>>

\* verify_jwt(x_token), the first statement of each handler
\* (main.py:697, 801, 859): a 401 ends the request
RequestVerify ==
  /\ rpc = "verify"
  /\ LET r == verify_jwt(request.token, now)
     IN  IF r.status = 200
           THEN /\ request' = [request EXCEPT !.verdict = 200]
                /\ rpc' = IF request.op = "generate/report" THEN "type" ELSE "ai"
           ELSE /\ request' = [request EXCEPT !.verdict = r.status, !.status = r.status]
                /\ rpc' = "done"
  /\ UNCHANGED <<credVars, reportVars, stale, restarts>>

\* generate_educational_report, lines 803-804: the report type is required
RequestCheckType ==
  /\ rpc = "type"
  /\ IF request.reportType = <<>>
       THEN /\ request' = [request EXCEPT !.status = 400]
            /\ rpc' = "done"
       ELSE /\ rpc' = "ai"
            /\ UNCHANGED request
  /\ UNCHANGED <<credVars, reportVars, stale, restarts>>

\* model.generate_content (main.py:700-701, 819-820, 874-875) raises: the
\* handler answers 500
AICallFails ==
  /\ rpc = "ai"
  /\ request' = [request EXCEPT !.aiCalls = @ + 1, !.status = 500]
  /\ rpc' = "done"
  /\ UNCHANGED <<credVars, reportVars, stale, restarts>>

\* model.generate_content returns ai_text: /generate and /consult/educational
\* answer with it, /generate/report hands it to parse_ai_response (line 824)
AICallReturns(ai_text) ==
  /\ rpc = "ai"
  /\ IF request.op = "generate/report"
       THEN /\ request' = [request EXCEPT !.aiCalls = @ + 1]
            /\ rpc' = "parse"
            /\ raw' = ai_text
            /\ report_type' = request.reportType
            /\ ppc' = "start"
            /\ UNCHANGED <<parsed, idx, text, epc, arg, rng>>
       ELSE /\ request' = [request EXCEPT !.aiCalls = @ + 1, !.status = 200]
            /\ rpc' = "done"
            /\ UNCHANGED reportVars
  /\ UNCHANGED <<credVars, stale, restarts>>

\* generate_educational_report, lines 826-831: parse_ai_response has returned
RequestReturn ==
  /\ rpc = "parse" /\ ppc = "done"
  /\ request' = [request EXCEPT !.status = 200]
  /\ rpc' = "done"
  /\ UNCHANGED <<credVars, reportVars, stale, restarts>>

InitRequest ==
  /\ CredInit
  /\ report_type = <<>>
  /\ raw = <<>>
  /\ parsed = EmptyParsed
  /\ ppc = "off"
  /\ idx = 0
  /\ text = <<>>
  /\ epc = "off"
  /\ arg = <<>>
  /\ rng \in 0..MaxSeed

NextRequest ==
  \/ \E op \in AIEndpoints, token \in RequestTokens, reportType \in ReportTypes :
       ReceiveRequest(op, token, reportType)
  \/ RequestVerify
  \/ RequestCheckType
  \/ AICallFails
  \/ \E ai_text \in RawInputs : AICallReturns(ai_text)
  \/ NextReport
  \/ RequestReturn

SpecRequest == InitRequest /\ [][NextRequest]_vars

\* C11: the AI model is called and the AI text is normalised only in a
\* request whose token verify_jwt has accepted; a request whose token
\* verify_jwt has refused ends with 401, with no AI call and no normalisation.
C11_VerifyBeforeAI ==
  /\ (request.aiCalls > 0 \/ ppc # "off") => request.verdict = 200
  /\ rpc \in {"type", "ai", "parse"} => request.verdict = 200
  /\ (rpc = "done" /\ request.verdict # 200)
       => (request.status = 401 /\ request.aiCalls = 0 /\ ppc = "off")

\* a report request with an accepted token has called the AI model once and
\* returned the normalised report
C11_Witness ==
  /\ rpc = "done" /\ request.op = "generate/report"
  /\ request.verdict = 200 /\ request.status = 200
  /\ request.aiCalls = 1 /\ ppc = "done"

-----------------------------------------------------------------------------
\* Properties of the text pipeline

\* C4: the text enrich_and_enforce returns for a text that is not empty has
\* between min_words and max_words words.
C4_BandHolds ==
  (epc = "done" /\ arg # <<>>) => (WordCount(text) >= min_words /\ WordCount(text) <= max_words)

\* a text of five words has been padded into the band and ends with a full stop
C4_Witness ==
  /\ epc = "done"
  /\ WordCount(arg) = 5
  /\ WordCount(text) >= min_words /\ WordCount(text) <= max_words
  /\ text[Len(text)] = "."

\* C5: the padding loop terminates: while the text is short of the lower
\* bound, some phrase of the selected set can still be appended.  (When none
\* can, no iteration changes the text and the loop never ends.)
C5_PaddingCanFinish ==
  (epc = "pad" /\ WordCount(text) < min_words)
    => \E i \in 1..Len(EnrichmentPhrases(report_type)) :
         Fits(EnrichmentPhrases(report_type)[i], text)

\* C3: the report parse_ai_response returns has all seven fields filled.
C3_AllFieldsFilled ==
  ppc = "done" => \A i \in 1..Len(Keys) : parsed[Keys[i]] # <<>>

\* the report as a text with the markers 1. to 7., one field per line
Render(dict) == Join([k \in 1..Len(Keys) |-> <<LatinDigits[k], ".", " ">> \o dict[Keys[k]]], <<NL>>)

\* every field of the raw text has between min_words and max_words words
Compliant(response_text) ==
  \A i \in 1..Len(Keys) :
    /\ WordCount(Extract(response_text)[Keys[i]]) >= min_words
    /\ WordCount(Extract(response_text)[Keys[i]]) <= max_words

\* C14: for a raw text with the markers 1 to 7 whose fields all have 25 to 35
\* words, parse_ai_response returns every field as it was in the input, and
\* normalising the returned report again returns the same report.
C14_Idempotent ==
  (ppc = "done" /\ Compliant(raw)) =>
    \A i \in 1..Len(Keys) :
      /\ parsed[Keys[i]] = Extract(raw)[Keys[i]]
      /\ EnrichSettled(Extract(Render(parsed))[Keys[i]]) = parsed[Keys[i]]

\* the stripped lines of the raw text
StrippedLines(response_text) ==
  [i \in 1..Len(SplitOn(response_text, NL)) |-> Strip(SplitOn(response_text, NL)[i])]

\* the slot a line is a marker of: k for the Latin digit k followed by ".",
\* ")" or "-" and for the Arabic-Indic digit k followed by ".", else 0
MarkerSlot(line) ==
  LET ks == {k \in 1..Len(Keys) :
               \/ \E sep \in {".", ")", "-"} : StartsWith(line, <<LatinDigits[k], sep>>)
               \/ StartsWith(line, <<ArabicDigits[k], ".">>)}
  IN  IF ks = {} THEN 0 ELSE CHOOSE k \in ks : \A j \in ks : k <= j

\* parse_ai_response has extracted the fields and enriched none yet
Extracted == ppc = "enrich" /\ idx = 1 /\ epc = "off"

\* C16: a line opens slot k exactly when it is a marker of k; the slot then
\* receives a text that begins with the rest of the line that opened it last;
\* a text without markers fills no field.
C16_OpensOnMarkers ==
  Extracted =>
    LET lines == StrippedLines(raw)
    IN  /\ \A i \in 1..Len(lines) : Opens(lines[i]) = MarkerSlot(lines[i])
        /\ \A i \in 1..Len(lines) :
             (/\ MarkerSlot(lines[i]) > 0
              /\ \A j \in (i + 1)..Len(lines) : MarkerSlot(lines[j]) # MarkerSlot(lines[i]))
             => StartsWith(parsed[Keys[MarkerSlot(lines[i])]], Strip(Drop(lines[i], 2)))
        /\ (\A i \in 1..Len(lines) : MarkerSlot(lines[i]) = 0) => parsed = EmptyParsed

\* C17: a line that is not empty and is no marker, met while a field is open,
\* is in the text extracted for that field, also when it begins with a digit.
C17_ContinuationKept ==
  Extracted =>
    LET lines == StrippedLines(raw)
    IN  \A i \in 1..Len(lines), o \in 1..Len(lines) :
          (/\ o < i
           /\ Opens(lines[o]) > 0
           /\ \A j \in (o + 1)..Len(lines) : Opens(lines[j]) = 0
           /\ lines[i] # <<>>
           /\ MarkerSlot(lines[i]) = 0)
          => Infix(lines[i], parsed[Keys[Opens(lines[o])]])

====
